---- MODULE Spec2Model ----
(***************************************************************************)
(* Rx.Observable.from and Rx.Observable.fromEventPattern                   *)
(* (src/src/core/perf/operators/from.js) as a state machine.               *)
(*                                                                         *)
(* JavaScript values are modelled as follows.                              *)
(*   - a string is the sequence of its UTF-16 code units; "H" and "L"      *)
(*     stand for a high and a low surrogate unit;                          *)
(*   - undefined is the one-element sequence <<"undefined">>;              *)
(*   - a number is a record [k, neg, hi, lo, half] whose finite value is   *)
(*     (-1)^neg * (hi * 2^27 + lo + half/2), so that 2^53 - 1 fits.        *)
(*                                                                         *)
(* Five specifications share the variables:                                *)
(*   SpecFrom  Observable.from, its subscriptions and their disposal;      *)
(*   SpecIter  StringIterator and ArrayIterator driven on their own;       *)
(*   SpecEPD   EventPatternObservable and EventPatternDisposable used      *)
(*             directly;                                                   *)
(*   SpecEP    Observable.fromEventPattern, shared through                 *)
(*             publish().refCount();                                       *)
(*   Spec      a program that makes one observable, with Observable.from   *)
(*             or with Observable.fromEventPattern.                        *)
(* The scheduler, the Disposable it returns and publish().refCount() are   *)
(* not part of from.js; they are written after the design document.        *)
(***************************************************************************)
EXTENDS Integers, Sequences, FiniteSets, TLC

VARIABLES
    env,        \* the host: does String/Array.prototype carry [$iterator$]
    fromObs,    \* the FromObservable made by Observable.from, or NoObs
    fromCall,   \* outcome of the last Observable.from call
    subs,       \* the subscriptions to fromObs
    ep,         \* the event-pattern observable, its event source, its
                \* disposables and its observers
    itr         \* a StringIterator or ArrayIterator driven on its own

fromVars == <<env, fromObs, fromCall, subs, itr>>

vars == <<env, fromObs, fromCall, subs, ep, itr>>

----------------------------------------------------------------------------
(* Bounds *)

MaxLen == 2

MaxConn == 2

MaxEvents == 2

MaxCalls == 4

SubIds == {"s1", "s2"}

ObsIds == {"o1", "o2"}

----------------------------------------------------------------------------
(* JavaScript values *)

Undefined == <<"undefined">>

Units == {"a", "b", "H", "L"}

ElemVals == {<<"a">>, <<"b">>}

ErrVal == <<"err">>

\* the error an observer's own onNext or onCompleted throws
ObserverErr == <<"observer error">>

TypeErrorNotIterable == <<"TypeError: Object is not iterable">>

SeqsUpTo(S, n) == UNION {[1..k -> S] : k \in 0..n}

Base == 2^27

NaN == [k |-> "nan", neg |-> FALSE, hi |-> 0, lo |-> 0, half |-> FALSE]

Infinity == [k |-> "inf", neg |-> FALSE, hi |-> 0, lo |-> 0, half |-> FALSE]

\* the value undefined where a number is looked for (a missing length)
NoNumber == [k |-> "undef", neg |-> FALSE, hi |-> 0, lo |-> 0, half |-> FALSE]

Num(n) == [k |-> "fin", neg |-> FALSE, hi |-> 0, lo |-> n, half |-> FALSE]

Neg(x) == [x EXCEPT !.neg = ~x.neg]

Half(n) == [k |-> "fin", neg |-> FALSE, hi |-> 0, lo |-> n, half |-> TRUE]

IsZero(x) == x.k = "fin" /\ x.hi = 0 /\ x.lo = 0 /\ ~x.half

\* a < b on numbers (false when either is NaN)
NumLess(a, b) ==
    LET Mag(x) == <<x.hi, x.lo, IF x.half THEN 1 ELSE 0>>
        MagLess(x, y) ==
            \/ x.hi < y.hi
            \/ x.hi = y.hi /\ x.lo < y.lo
            \/ x.hi = y.hi /\ x.lo = y.lo /\ ~x.half /\ y.half
        Negative(x) == x.neg /\ ~IsZero(x)
    IN  CASE a.k = "nan" \/ b.k = "nan" -> FALSE
          [] a.k = "inf" -> a.neg /\ ~(b.k = "inf" /\ b.neg)
          [] b.k = "inf" -> ~b.neg
          [] Negative(a) /\ ~Negative(b) -> TRUE
          [] ~Negative(a) /\ Negative(b) -> FALSE
          [] Negative(a) /\ Negative(b) -> MagLess(b, a)
          [] OTHER -> MagLess(a, b)

\* +value : undefined converts to NaN, a number to itself
ToNumber(v) == IF v.k = "undef" THEN NaN ELSE v

maxSafeInteger ==
    [k |-> "fin", neg |-> FALSE, hi |-> (Base \div 2) - 1, lo |-> Base - 1,
     half |-> FALSE]

numberIsFinite(value) == value.k = "fin"

sign(value) ==
    LET number == ToNumber(value)
    IN  IF IsZero(number) THEN number
        ELSE IF number.k = "nan" THEN number
        ELSE IF NumLess(number, Num(0)) THEN Neg(Num(1)) ELSE Num(1)

\* Math.floor(Math.abs(x)) for a finite x
FloorAbs(x) == [x EXCEPT !.neg = FALSE, !.half = FALSE]

\* s * m where s is 1 or -1
SignTimes(s, m) == [m EXCEPT !.neg = (s.neg # m.neg)]

toLength(o) ==
    LET len == ToNumber(o.length)
        len2 == SignTimes(sign(len), FloorAbs(len))
    IN  IF len.k = "nan" THEN Num(0)
        ELSE IF IsZero(len) \/ ~numberIsFinite(len) THEN len
        ELSE IF ~NumLess(Num(0), len2) THEN Num(0)
        ELSE IF NumLess(maxSafeInteger, len2) THEN maxSafeInteger
        ELSE len2

----------------------------------------------------------------------------
(* Sources handed to Observable.from *)

NoScript == <<>>

Src(type, items, length, hasIter, script) ==
    [type |-> type, items |-> items, length |-> length, hasIter |-> hasIter,
     script |-> script]

Null == Src("null", <<>>, NoNumber, FALSE, NoScript)

UndefinedSrc == Src("undefined", <<>>, NoNumber, FALSE, NoScript)

StringSrc(s) == Src("string", s, Num(Len(s)), FALSE, NoScript)

ArraySrc(a) == Src("array", a, Num(Len(a)), FALSE, NoScript)

ArrayLike(items, length) == Src("object", items, length, FALSE, NoScript)

Iterable(script) == Src("object", <<>>, NoNumber, TRUE, script)

Value(v) == [t |-> "value", v |-> v]

Done == [t |-> "done", v |-> Undefined]

Throw(e) == [t |-> "throw", v |-> e]

Outcomes == {Value(v) : v \in ElemVals} \cup {Done, Throw(ErrVal)}

Lengths ==
    {Num(n) : n \in 0..MaxLen} \cup {NaN, Neg(Num(1)), Half(1), NoNumber}

Sources ==
    {Null, UndefinedSrc}
    \cup {StringSrc(s) : s \in SeqsUpTo(Units, MaxLen)}
    \cup {ArraySrc(a) : a \in SeqsUpTo(ElemVals, MaxLen)}
    \cup {ArrayLike(a, l) : a \in SeqsUpTo(ElemVals, MaxLen), l \in Lengths}
    \cup {Iterable(s) : s \in SeqsUpTo(Outcomes, MaxLen)}

\* Object(x): a primitive string becomes a String object, null and undefined
\* become an empty object, an object is returned as it is
ObjectOf(x) ==
    CASE x.type = "string" -> [x EXCEPT !.type = "String"]
      [] x.type \in {"null", "undefined"} -> ArrayLike(<<>>, NoNumber)
      [] OTHER -> x

TypeOf(x) ==
    CASE x.type = "string" -> "string"
      [] x.type = "undefined" -> "undefined"
      [] OTHER -> "object"

\* o[i] for an index i
Get(o, i) ==
    IF i + 1 > Len(o.items) THEN Undefined
    ELSE IF o.type \in {"string", "String"} THEN <<o.items[i + 1]>>
    ELSE o.items[i + 1]

\* s.charAt(i)
charAt(s, i) == IF i + 1 > Len(s.items) THEN <<>> ELSE <<s.items[i + 1]>>

\* o[$iterator$] is present
HasIterator(o) ==
    \/ o.type \in {"string", "String", "array"} /\ env.nativeIter
    \/ o.hasIter

----------------------------------------------------------------------------
(* Iterators *)

Iter(kind, o, l) == [kind |-> kind, o |-> o, _l |-> l, _i |-> 0]

NoIt == Iter("none", Null, Num(0))

StringIterator(s) == Iter("StringIterator", s, s.length)

ArrayIterator(a) == Iter("ArrayIterator", a, toLength(a))

\* the iterator the host or the source object itself hands out
HostIterator(o) ==
    CASE o.hasIter -> Iter("user", o, Num(0))
      [] o.type \in {"string", "String"} -> Iter("hostString", o, o.length)
      [] OTHER -> Iter("hostArray", o, o.length)

IterResult(it, threw, done, value) ==
    [it |-> it, threw |-> threw, done |-> done, value |-> value]

doneEnumerator(it) == IterResult(it, FALSE, TRUE, Undefined)

Advance(it, n) == [it EXCEPT !._i = it._i + n]

StringIteratorNext(it) ==
    IF NumLess(Num(it._i), it._l)
    THEN IterResult(Advance(it, 1), FALSE, FALSE, charAt(it.o, it._i))
    ELSE doneEnumerator(it)

\* this._a[++this._i] in place of this._a[this._i++]
ArrayIteratorNextPreIncrement(it) ==
    IF NumLess(Num(it._i), it._l)
    THEN IterResult(Advance(it, 1), FALSE, FALSE, Get(it.o, it._i + 1))
    ELSE doneEnumerator(it)

ArrayIteratorNext(it) ==
    IF NumLess(Num(it._i), it._l)
    THEN IterResult(Advance(it, 1), FALSE, FALSE, Get(it.o, it._i))
    ELSE doneEnumerator(it)

\* String.prototype[Symbol.iterator]: one code point per step, a surrogate
\* pair being one code point
HostStringNext(it) ==
    LET s == it.o.items
        i == it._i
    IN  IF i >= Len(s) THEN doneEnumerator(it)
        ELSE IF s[i + 1] = "H" /\ i + 1 < Len(s) /\ s[i + 2] = "L"
        THEN IterResult(Advance(it, 2), FALSE, FALSE, <<"H", "L">>)
        ELSE IterResult(Advance(it, 1), FALSE, FALSE, <<s[i + 1]>>)

\* Array.prototype[Symbol.iterator]
HostArrayNext(it) ==
    IF it._i < Len(it.o.items)
    THEN IterResult(Advance(it, 1), FALSE, FALSE, Get(it.o, it._i))
    ELSE doneEnumerator(it)

\* an iterator supplied by the caller: it plays its script, then is done
UserNext(it) ==
    LET s == it.o.script
    IN  IF it._i >= Len(s) THEN doneEnumerator(it)
        ELSE LET r == s[it._i + 1]
             IN  IterResult(Advance(it, 1), r.t = "throw", r.t = "done", r.v)

\* tryCatch(it.next).call(it): threw stands for the errorObj result
Next(it) ==
    CASE it.kind = "StringIterator" -> StringIteratorNext(it)
      [] it.kind = "ArrayIterator" -> ArrayIteratorNext(it)
      [] it.kind = "hostString" -> HostStringNext(it)
      [] it.kind = "hostArray" -> HostArrayNext(it)
      [] it.kind = "user" -> UserNext(it)
      [] OTHER -> doneEnumerator(it)

\* the array-like branch taken for a missing length instead of a present one
getIterableLengthTestInverted(o) ==
    LET i == HasIterator(o)
    IN  IF ~i /\ TypeOf(o) = "string"
        THEN [threw |-> FALSE, it |-> StringIterator(o)]
        ELSE IF ~i /\ o.length.k = "undef"
        THEN [threw |-> FALSE, it |-> ArrayIterator(o)]
        ELSE IF ~i THEN [threw |-> TRUE, it |-> NoIt]
        ELSE [threw |-> FALSE, it |-> HostIterator(o)]

getIterable(o) ==
    LET i == HasIterator(o)
    IN  IF ~i /\ TypeOf(o) = "string"
        THEN [threw |-> FALSE, it |-> StringIterator(o)]
        ELSE IF ~i /\ o.length.k # "undef"
        THEN [threw |-> FALSE, it |-> ArrayIterator(o)]
        ELSE IF ~i THEN [threw |-> TRUE, it |-> NoIt]
        ELSE [threw |-> FALSE, it |-> HostIterator(o)]

----------------------------------------------------------------------------
(* The two iterators of from.js driven on their own *)

\* the lengths an array-like object is given here: not a number, infinite,
\* and finite ones of either sign, whole or fractional, around 0 and around
\* 2^53 - 1
LengthInputs ==
    {NaN, Infinity, Neg(Infinity)}
    \cup {[k |-> "fin", neg |-> n, hi |-> h, lo |-> l, half |-> f] :
              n \in BOOLEAN, f \in BOOLEAN,
              h \in {0, maxSafeInteger.hi, maxSafeInteger.hi + 1},
              l \in (0..MaxLen) \cup {Base - 1}}

\* it is the iterator, prev its cursor before the last next() call, last the
\* kind of result that call gave, wasDone whether a call before the last one
\* had already answered done
NoCursor == [it |-> NoIt, prev |-> 0, last |-> "none", wasDone |-> FALSE]

\* new StringIterable(s)[$iterator$]()
NewStringIterator(s) ==
    /\ itr.it.kind = "none"
    /\ itr' = [NoCursor EXCEPT !.it = StringIterator(StringSrc(s))]
    /\ UNCHANGED <<env, fromObs, fromCall, subs, ep>>

\* new ArrayIterable(a)[$iterator$]()
NewArrayIterator(a) ==
    /\ itr.it.kind = "none"
    /\ itr' = [NoCursor EXCEPT !.it = ArrayIterator(a)]
    /\ UNCHANGED <<env, fromObs, fromCall, subs, ep>>

\* it.next(), for as long as the cursor is within the bound
IteratorNext ==
    /\ itr.it.kind # "none"
    /\ itr.it._i <= MaxLen
    /\ LET r == Next(itr.it)
       IN  itr' = [it |-> r.it, prev |-> itr.it._i,
                   last |-> IF r.done THEN "done" ELSE "value",
                   wasDone |-> itr.wasDone \/ itr.last = "done"]
    /\ UNCHANGED <<env, fromObs, fromCall, subs, ep>>

IterNext ==
    \/ \E s \in SeqsUpTo(Units, MaxLen) : NewStringIterator(s)
    \/ \E a \in SeqsUpTo(ElemVals, MaxLen), l \in LengthInputs :
           NewArrayIterator(ArrayLike(a, l))
    \/ IteratorNext

----------------------------------------------------------------------------
(* Subscriptions to a FromObservable *)

Sig(t, v) == [t |-> t, v |-> v]

\* an observer that records every call and does at most one thing more:
\* when disposeAt = k > 0 it disposes its subscription from inside its k-th
\* onNext, when throwAt = k > 0 its k-th onNext throws, when
\* throwsOnCompleted its onCompleted throws
Observer(d, t, c) == [disposeAt |-> d, throwAt |-> t, throwsOnCompleted |-> c]

Collector == Observer(0, 0, FALSE)

Observers ==
    {Collector, Observer(0, 0, TRUE)}
    \cup {Observer(k, 0, FALSE) : k \in 1..MaxLen}
    \cup {Observer(0, k, FALSE) : k \in 1..MaxLen}

\* thrown is the exception that left subscribeCore or a scheduled step;
\* depth counts the step invocations that are on the call stack, maxDepth is
\* the most there ever were
Idle ==
    [state |-> "idle", o |-> Collector, it |-> NoIt, pending |-> FALSE,
     i |-> 0, disposed |-> FALSE, atDispose |-> 0, log |-> <<>>,
     thrown |-> Undefined, depth |-> 0, maxDepth |-> 0]

\* the observers a subscription is made with: the first subscription takes
\* any of them, the other one the plain collector (subscriptions share no
\* state, so what one observer does is seen on the first)
ObserversOf(n) == IF n = "s1" THEN Observers ELSE {Collector}

Threw(s) == s.thrown # Undefined

NextCount(s) == Cardinality({k \in 1..Len(s.log) : s.log[k].t = "N"})

\* dispose() of the Disposable that scheduleRecursive returned
dispose(s) ==
    IF s.disposed THEN s
    ELSE [s EXCEPT !.disposed = TRUE, !.atDispose = Len(s.log)]

onNext(s, v) ==
    LET s1 == [s EXCEPT !.log = Append(s.log, Sig("N", v))]
    IN  IF s.o.disposeAt = NextCount(s1) THEN dispose(s1)
        ELSE IF s.o.throwAt = NextCount(s1)
        THEN [s1 EXCEPT !.thrown = ObserverErr]
        ELSE s1

onError(s, e) == [s EXCEPT !.log = Append(s.log, Sig("E", e))]

onCompleted(s) ==
    LET s1 == [s EXCEPT !.log = Append(s.log, Sig("C", Undefined))]
    IN  IF s.o.throwsOnCompleted THEN [s1 EXCEPT !.thrown = ObserverErr]
        ELSE s1

\* a step invocation begins: one more frame on the call stack
Enter(s) ==
    [s EXCEPT !.depth = s.depth + 1,
              !.maxDepth = IF s.depth + 1 > s.maxDepth THEN s.depth + 1
                           ELSE s.maxDepth]

\* the invocation returns, or an exception leaves it
Leave(s) == [s EXCEPT !.depth = s.depth - 1]

\* recurse(state) of scheduleRecursive: the next step is queued
recurse(s, i) == [s EXCEPT !.pending = TRUE, !.i = i]

\* o.onNext(next.value); recurse(i + 1): an exception thrown by o.onNext
\* leaves the step before recurse is reached
NextThenRecurse(s, v, i) ==
    LET s1 == onNext(s, v)
    IN  IF Threw(s1) THEN s1 ELSE recurse(s1, i)

\* no return after o.onError: the step goes on to o.onNext and recurse
loopRecursiveErrorFallsThrough(s) ==
    LET next == Next(s.it)
        s1 == Enter([s EXCEPT !.it = next.it, !.pending = FALSE])
    IN  Leave(IF next.threw
              THEN recurse(onNext(onError(s1, next.value), Undefined), s.i + 1)
              ELSE IF next.done THEN onCompleted(s1)
              ELSE NextThenRecurse(s1, next.value, s.i + 1))

\* the error branch does not return before the completion branch
loopRecursiveCompletesAfterError(s) ==
    LET next == Next(s.it)
        s1 == Enter([s EXCEPT !.it = next.it, !.pending = FALSE])
    IN  Leave(IF next.threw THEN onCompleted(onError(s1, next.value))
              ELSE IF next.done THEN onCompleted(s1)
              ELSE NextThenRecurse(s1, next.value, s.i + 1))

\* the step calls itself instead of recurse(i + 1)
RECURSIVE loopRecursiveNative(_)
loopRecursiveNative(s) ==
    LET next == Next(s.it)
        s1 == Enter([s EXCEPT !.it = next.it, !.pending = FALSE])
    IN  Leave(IF next.threw THEN onError(s1, next.value)
              ELSE IF next.done THEN onCompleted(s1)
              ELSE LET s2 == onNext(s1, next.value)
                   IN  IF Threw(s2) THEN s2
                       ELSE loopRecursiveNative([s2 EXCEPT !.i = s.i + 1]))

\* it.next() is called without tryCatch: its exception leaves the step
loopRecursiveNoTryCatch(s) ==
    LET next == Next(s.it)
        s1 == Enter([s EXCEPT !.it = next.it, !.pending = FALSE])
    IN  Leave(IF next.threw THEN [s1 EXCEPT !.thrown = next.value]
              ELSE IF next.done THEN onCompleted(s1)
              ELSE NextThenRecurse(s1, next.value, s.i + 1))

\* o.onNext and o.onCompleted are called under tryCatch and what they throw
\* is handed to o.onError
loopRecursiveCatchesObserver(s) ==
    LET next == Next(s.it)
        s1 == Enter([s EXCEPT !.it = next.it, !.pending = FALSE])
        Caught(r) ==
            IF Threw(r) THEN onError([r EXCEPT !.thrown = Undefined], r.thrown)
            ELSE r
    IN  Leave(IF next.threw THEN onError(s1, next.value)
              ELSE IF next.done THEN Caught(onCompleted(s1))
              ELSE Caught(NextThenRecurse(s1, next.value, s.i + 1)))

loopRecursive(s) ==
    LET next == Next(s.it)
        s1 == Enter([s EXCEPT !.it = next.it, !.pending = FALSE])
    IN  Leave(IF next.threw THEN onError(s1, next.value)
              ELSE IF next.done THEN onCompleted(s1)
              ELSE NextThenRecurse(s1, next.value, s.i + 1))

\* the scheduler runs a queued step: a step of a disposed subscription is
\* dropped without being run
scheduledStep(s) ==
    IF s.disposed THEN [s EXCEPT !.pending = FALSE] ELSE loopRecursive(s)

\* the current-thread scheduler: the trampoline runs queued steps until the
\* queue is empty, before scheduleRecursive returns
RECURSIVE Trampoline(_)
Trampoline(s) == IF s.pending THEN Trampoline(scheduledStep(s)) ELSE s

\* scheduler.scheduleRecursive(0, action)
scheduleRecursive(scheduler, s) ==
    LET s0 == recurse(s, 0)
    IN  IF scheduler = "currentThread" THEN Trampoline(s0) ELSE s0

subscribeCore(obs, o) ==
    LET list == ObjectOf(obs._iterable)
        got == getIterable(list)
    IN  IF got.threw
        THEN [Idle EXCEPT !.state = "failed", !.o = o,
                          !.thrown = TypeErrorNotIterable]
        ELSE scheduleRecursive(obs._scheduler,
                 [Idle EXCEPT !.state = "active", !.o = o, !.it = got.it])

----------------------------------------------------------------------------
(* Observable.from *)

Schedulers == {"none", "notAScheduler", "async"}

isScheduler(s) == s = "async"

NoObs == [made |-> FALSE, _iterable |-> Null, _scheduler |-> "none"]

FromObservable(iterable, scheduler) ==
    [made |-> TRUE, _iterable |-> iterable, _scheduler |-> scheduler]

\* calls is what the call of from did to its source on the way: the names of
\* the source's methods it invoked, in order
observableFromNoCheck(iterable, scheduler) ==
    [threw |-> FALSE, calls |-> <<>>,
     obs |-> FromObservable(iterable,
                 IF isScheduler(scheduler) THEN scheduler ELSE "currentThread")]

\* the scheduler argument is stored as it came
observableFromNoDefault(iterable, scheduler) ==
    IF iterable.type \in {"null", "undefined"}
    THEN [threw |-> TRUE, calls |-> <<>>, obs |-> NoObs]
    ELSE [threw |-> FALSE, calls |-> <<>>,
          obs |-> FromObservable(iterable, scheduler)]

\* the source's iterator is fetched, and advanced once, at the call of from
observableFromEager(iterable, scheduler) ==
    IF iterable.type \in {"null", "undefined"}
    THEN [threw |-> TRUE, calls |-> <<>>, obs |-> NoObs]
    ELSE [threw |-> FALSE, calls |-> <<"@@iterator", "next">>,
          obs |-> FromObservable(iterable,
                      IF isScheduler(scheduler) THEN scheduler
                      ELSE "currentThread")]

observableFrom(iterable, scheduler) ==
    IF iterable.type \in {"null", "undefined"}
    THEN [threw |-> TRUE, calls |-> <<>>, obs |-> NoObs]
    ELSE [threw |-> FALSE, calls |-> <<>>,
          obs |-> FromObservable(iterable,
                      IF isScheduler(scheduler) THEN scheduler
                      ELSE "currentThread")]

NoCall == [result |-> "none", arg |-> Null, scheduler |-> "none", calls |-> <<>>]

----------------------------------------------------------------------------
(* Actions: Observable.from and its subscriptions *)

FromInit ==
    /\ env \in [nativeIter : BOOLEAN]
    /\ fromObs = NoObs
    /\ fromCall = NoCall
    /\ subs = [n \in SubIds |-> Idle]
    /\ itr = NoCursor

\* Observable.from(iterable, thisArg, scheduler)
From(iterable, scheduler) ==
    /\ fromCall.result = "none"
    /\ LET r == observableFrom(iterable, scheduler)
       IN  /\ fromObs' = r.obs
           /\ fromCall' = [result |-> IF r.threw THEN "threw" ELSE "returned",
                           arg |-> iterable, scheduler |-> scheduler,
                           calls |-> r.calls]
    /\ UNCHANGED <<env, subs, ep, itr>>

\* the iterator is made for the first subscription and a later subscription
\* goes on from where that one is
SubscribeSharedIterator(n, o) ==
    /\ fromObs.made
    /\ subs[n].state = "idle"
    /\ LET fresh == subscribeCore(fromObs, o)
           others == {m \in SubIds \ {n} : subs[m].state = "active"}
       IN  subs' = [subs EXCEPT ![n] =
                       IF others = {} \/ fresh.state # "active" THEN fresh
                       ELSE scheduleRecursive(fromObs._scheduler,
                                [Idle EXCEPT !.state = "active", !.o = o,
                                    !.it = subs[CHOOSE m \in others : TRUE].it])]
    /\ UNCHANGED <<env, fromObs, fromCall, ep, itr>>

\* fromObs.subscribe(o)
Subscribe(n, o) ==
    /\ fromObs.made
    /\ subs[n].state = "idle"
    /\ subs' = [subs EXCEPT ![n] = subscribeCore(fromObs, o)]
    /\ UNCHANGED <<env, fromObs, fromCall, ep, itr>>

\* a scheduler other than the current-thread one runs a queued step
RunStep(n) ==
    /\ subs[n].pending
    /\ subs' = [subs EXCEPT ![n] = scheduledStep(subs[n])]
    /\ UNCHANGED <<env, fromObs, fromCall, ep, itr>>

\* the subscriber calls dispose() between two steps or after the last one
Dispose(n) ==
    /\ subs[n].state = "active"
    /\ ~subs[n].disposed
    /\ subs' = [subs EXCEPT ![n] = dispose(subs[n])]
    /\ UNCHANGED <<env, fromObs, fromCall, ep, itr>>

FromNext ==
    \/ \E src \in Sources, sch \in Schedulers : From(src, sch)
    \/ \E n \in SubIds : \E o \in ObserversOf(n) : Subscribe(n, o)
    \/ \E n \in SubIds : RunStep(n)
    \/ \E n \in SubIds : Dispose(n)

----------------------------------------------------------------------------
(* Observable.fromEventPattern: the event source *)

\* what addHandler returns: a token for the registration, or undefined
AddKinds == {"token", "undefined"}

\* removeHandler: it unregisters the handler, it throws, it was not given, or
\* it is not a function
DelKinds == {"removes", "throws", "absent", "notCallable"}

isFunction(f) == f \in {"removes", "throws"}

NoToken == [tok |-> 0]

X == <<"x">>

Y == <<"y">>

\* the arguments the event source passes to its handlers
ArgLists == {<<>>, <<X>>, <<Y, X>>}

ConnIds == 1..MaxConn

NoFn == [id |-> 0, o |-> "none"]

NoDisposable ==
    [made |-> FALSE, _del |-> "absent", _fn |-> NoFn, _ret |-> NoToken,
     isDisposed |-> FALSE, called |-> FALSE]

EPInitial ==
    [obs |-> [made |-> FALSE, shared |-> FALSE, _add |-> "undefined",
              _del |-> "absent"],
     emitter |-> {},
     calls |-> <<>>,
     disps |-> [c \in ConnIds |-> NoDisposable],
     logs |-> [o \in ObsIds |-> <<>>],
     count |-> 0,
     members |-> {},
     conn |-> 0,
     raised |-> 0,
     lastArgs |-> <<>>,
     threw |-> FALSE]

\* the call this._add(fn): the event source registers fn; the log of calls
\* keeps, for an add, the handler passed and the value returned
AddHandlerCall(w, fn) ==
    LET ret == IF w.obs._add = "token" THEN [tok |-> fn.id] ELSE NoToken
    IN  [w |-> [w EXCEPT !.emitter = w.emitter \cup {fn},
                         !.calls = Append(w.calls,
                                       [f |-> "add", fn |-> fn, ret |-> ret])],
         ret |-> ret]

\* the call this._del(fn, ret): the event source unregisters fn, or throws
RemoveHandlerCall(w, del, fn, ret) ==
    LET logged == [w EXCEPT !.calls = Append(w.calls,
                                 [f |-> "del", fn |-> fn, ret |-> ret])]
    IN  IF del = "throws" THEN [logged EXCEPT !.threw = TRUE]
        ELSE [logged EXCEPT !.emitter = w.emitter \ {fn}]

----------------------------------------------------------------------------
(* EventPatternObservable *)

EventPatternObservable(add, del, shared) ==
    [made |-> TRUE, shared |-> shared, _add |-> add, _del |-> del]

\* the closure createHandler(o) returns; id tells the closures apart
createHandler(id, o) == [id |-> id, o |-> o]

\* the observers an onNext on o reaches: o itself, or, when o is the subject
\* of the shared observable, the observers subscribed to it while the
\* connection that made the handler is the live one
Reached(w, fn) ==
    IF fn.o = "subject"
    THEN IF w.conn = fn.id THEN w.members ELSE {}
    ELSE {fn.o}

OnNextAll(w, fn, v) ==
    [w EXCEPT !.logs = [o \in ObsIds |->
        IF o \in Reached(w, fn) THEN Append(w.logs[o], Sig("N", v))
        ELSE w.logs[o]]]

\* the handler forwards arguments[1] instead of arguments[0]
handlerSecondArgument(w, fn, args) ==
    OnNextAll(w, fn, IF Len(args) >= 2 THEN args[2] ELSE Undefined)

\* handler(): results = arguments[0]; o.onNext(results)
handler(w, fn, args) ==
    LET results == IF Len(args) >= 1 THEN args[1] ELSE Undefined
    IN  OnNextAll(w, fn, results)

EventPatternDisposable(del, fn, ret) ==
    [made |-> TRUE, _del |-> del, _fn |-> fn, _ret |-> ret,
     isDisposed |-> FALSE, called |-> FALSE]

\* the number of disposables made so far: the next one gets the next id
Made(w) == Cardinality({c \in ConnIds : w.disps[c].made})

\* this._add is called twice
EventPatternSubscribeCoreAddsTwice(w, o) ==
    LET id == Made(w) + 1
        fn == createHandler(id, o)
        r == AddHandlerCall(AddHandlerCall(w, fn).w, fn)
    IN  [r.w EXCEPT !.disps[id] = EventPatternDisposable(w.obs._del, fn, r.ret)]

EventPatternSubscribeCore(w, o) ==
    LET id == Made(w) + 1
        fn == createHandler(id, o)
        r == AddHandlerCall(w, fn)
    IN  [r.w EXCEPT !.disps[id] = EventPatternDisposable(w.obs._del, fn, r.ret)]

\* EventPatternDisposable.prototype.dispose; w.threw tells that it threw,
\* called that dispose() was called on the disposable at least once
\* isDisposed is set before removeHandler is called
EventPatternDisposeFlagFirst(w, c) ==
    LET d == w.disps[c]
        w0 == [w EXCEPT !.threw = FALSE, !.disps[c].called = TRUE]
    IN  IF ~d.isDisposed
        THEN LET w1 == [w0 EXCEPT !.disps[c].isDisposed = TRUE]
             IN  IF isFunction(d._del)
                 THEN RemoveHandlerCall(w1, d._del, d._fn, d._ret)
                 ELSE w1
        ELSE w0

EventPatternDispose(w, c) ==
    LET d == w.disps[c]
        w0 == [w EXCEPT !.threw = FALSE, !.disps[c].called = TRUE]
    IN  IF ~d.isDisposed
        THEN LET w1 == IF isFunction(d._del)
                       THEN RemoveHandlerCall(w0, d._del, d._fn, d._ret)
                       ELSE w0
             IN  IF w1.threw THEN w1
                 ELSE [w1 EXCEPT !.disps[c].isDisposed = TRUE]
        ELSE w0

\* the event source raises an event: it calls every registered handler with
\* the event's arguments, in the order of registration
RECURSIVE CallHandlers(_, _, _)
CallHandlers(w, id, args) ==
    IF id > MaxConn THEN w
    ELSE LET fns == {fn \in w.emitter : fn.id = id}
         IN  IF fns = {} THEN CallHandlers(w, id + 1, args)
             ELSE CallHandlers(handler(w, CHOOSE fn \in fns : TRUE, args),
                               id + 1, args)

----------------------------------------------------------------------------
(* Actions: the event-pattern observable used directly *)

\* new EventPatternObservable(addHandler, removeHandler)
Construct(add, del) ==
    /\ ~ep.obs.made
    /\ ep' = [ep EXCEPT !.obs = EventPatternObservable(add, del, FALSE)]
    /\ UNCHANGED fromVars

\* subscribeCore(o) for an observer o
CoreSubscribe(o) ==
    /\ ep.obs.made /\ ~ep.obs.shared
    /\ Made(ep) < MaxConn
    /\ ep' = EventPatternSubscribeCore(ep, o)
    /\ UNCHANGED fromVars

\* dispose() on a disposable that subscribeCore returned, any number of times
CoreDispose(c) ==
    /\ ~ep.obs.shared
    /\ ep.disps[c].made
    /\ Len(ep.calls) < MaxCalls
    /\ ep' = EventPatternDispose(ep, c)
    /\ UNCHANGED fromVars

\* the event source raises an event
Raise(args) ==
    /\ ep.obs.made
    /\ ep.raised < MaxEvents
    /\ ep' = [CallHandlers(ep, 1, args) EXCEPT !.raised = ep.raised + 1,
                                               !.lastArgs = args]
    /\ UNCHANGED fromVars

EPDNext ==
    \/ \E add \in AddKinds, del \in DelKinds : Construct(add, del)
    \/ \E o \in ObsIds : CoreSubscribe(o)
    \/ \E c \in ConnIds : CoreDispose(c)
    \/ \E args \in ArgLists : Raise(args)

----------------------------------------------------------------------------
(* Actions: Observable.fromEventPattern, shared by reference counting *)

\* fromEventPattern(addHandler, removeHandler), with a removeHandler that
\* returns normally when it is called
FromEventPattern(add, del) ==
    /\ ~ep.obs.made
    /\ del # "throws"
    /\ ep' = [ep EXCEPT !.obs = EventPatternObservable(add, del, TRUE)]
    /\ UNCHANGED fromVars

\* publish().refCount(): the first subscriber connects, that is subscribes the
\* shared subject to the EventPatternObservable
refCountSubscribe(w, n) ==
    LET w1 == [w EXCEPT !.members = w.members \cup {n}, !.count = w.count + 1]
    IN  IF w.count = 0
        THEN [EventPatternSubscribeCore(w1, "subject") EXCEPT !.conn = Made(w) + 1]
        ELSE w1

\* the last subscriber to leave disposes the connection
refCountDispose(w, n) ==
    LET w1 == IF w.count = 1 THEN EventPatternDispose(w, w.conn) ELSE w
    IN  [w1 EXCEPT !.members = w.members \ {n}, !.count = w.count - 1,
                   !.conn = IF w.count = 1 THEN 0 ELSE w.conn]

SharedSubscribe(n) ==
    /\ ep.obs.made /\ ep.obs.shared
    /\ n \notin ep.members
    /\ ep.count > 0 \/ Made(ep) < MaxConn
    /\ ep' = refCountSubscribe(ep, n)
    /\ UNCHANGED fromVars

SharedUnsubscribe(n) ==
    /\ ep.obs.shared
    /\ n \in ep.members
    /\ ep' = refCountDispose(ep, n)
    /\ UNCHANGED fromVars

EPNext ==
    \/ \E add \in AddKinds, del \in DelKinds : FromEventPattern(add, del)
    \/ \E n \in ObsIds : SharedSubscribe(n)
    \/ \E n \in ObsIds : SharedUnsubscribe(n)
    \/ \E args \in ArgLists : Raise(args)

----------------------------------------------------------------------------
(* Specifications *)

Init == FromInit /\ ep = EPInitial

\* Observable.from
SpecFrom == Init /\ [][FromNext]_vars

\* the host's iterators play no part in the event-pattern observable
EPInit == Init /\ env.nativeIter

\* EventPatternObservable and EventPatternDisposable used directly
SpecEPD == EPInit /\ [][EPDNext]_vars

\* Observable.fromEventPattern
SpecEP == EPInit /\ [][EPNext]_vars

\* the iterators on their own
SpecIter == EPInit /\ [][IterNext]_vars

\* a program that makes one observable, with Observable.from or with
\* Observable.fromEventPattern; the host's iterators play no part in the
\* event pattern
Next1 ==
    \/ ~ep.obs.made /\ FromNext
    \/ fromCall.result = "none" /\ env.nativeIter /\ EPNext

Spec == Init /\ [][Next1]_vars

----------------------------------------------------------------------------
(* Properties of Observable.from *)

IsPrefix(p, q) == Len(p) <= Len(q) /\ \A k \in 1..Len(p) : p[k] = q[k]

\* the subscription ran to its end without being disposed
RanToEnd(s) ==
    s.state = "active" /\ ~s.pending /\ ~s.disposed /\ ~Threw(s)

Terminal(sig) == sig.t \in {"E", "C"}

\* onNext(vs[1]), ..., onNext(vs[n]), onCompleted()
AllThenCompleted(vs) ==
    [k \in 1..(Len(vs) + 1) |->
        IF k <= Len(vs) THEN Sig("N", vs[k]) ELSE Sig("C", Undefined)]

\* an array, or an object without iterator whose length is a natural number
IsArrayLike(A) ==
    \/ A.type = "array"
    \/ /\ A.type = "object" /\ ~A.hasIter
       /\ A.length.k = "fin" /\ ~A.length.neg /\ ~A.length.half

\* A[0], ..., A[n-1]
Elements(A) == [k \in 1..A.length.lo |-> Get(A, k - 1)]

\* C1: subscribing to from(A), A a non-null array-like of length n, delivers
\* onNext(A[0]), ..., onNext(A[n-1]) in order, then one onCompleted and no
\* onError; a subscription disposed on the way has received a prefix of that
C1_ArrayLikeInOrderThenCompleted ==
    \A n \in SubIds :
        (fromObs.made /\ IsArrayLike(fromObs._iterable)
            /\ subs[n].state # "idle") =>
            /\ subs[n].state = "active"
            /\ IsPrefix(subs[n].log, AllThenCompleted(Elements(fromObs._iterable)))
            /\ RanToEnd(subs[n]) =>
                   subs[n].log = AllThenCompleted(Elements(fromObs._iterable))

C1_Witness ==
    \E n \in SubIds :
        /\ fromObs.made
        /\ fromObs._iterable = ArrayLike(<<<<"b">>>>, Num(2))
        /\ subs[n].log = <<Sig("N", <<"b">>), Sig("N", Undefined),
                           Sig("C", Undefined)>>

\* the script returns values on its first k-1 calls and throws on the k-th
ThrowsOnCall(script, k) ==
    /\ k \in 1..Len(script)
    /\ script[k].t = "throw"
    /\ \A j \in 1..(k - 1) : script[j].t = "value"

\* onNext x (k-1) with the values of the script, then onError(error)
ValuesThenError(script, k) ==
    [j \in 1..k |->
        IF j < k THEN Sig("N", script[j].v) ELSE Sig("E", script[k].v)]

\* C2: when the iterator throws on its k-th next(), the subscriber observes
\* k-1 onNext, then one onError with the thrown error, then nothing: no
\* onCompleted
C2_ThrowOnKthNext ==
    \A n \in SubIds : \A k \in 1..MaxLen :
        (fromObs.made /\ fromObs._iterable.hasIter
            /\ ThrowsOnCall(fromObs._iterable.script, k)
            /\ subs[n].state # "idle") =>
            /\ IsPrefix(subs[n].log, ValuesThenError(fromObs._iterable.script, k))
            /\ RanToEnd(subs[n]) =>
                   subs[n].log = ValuesThenError(fromObs._iterable.script, k)

C2_Witness ==
    \E n \in SubIds :
        /\ fromObs.made
        /\ fromObs._iterable.hasIter
        /\ ThrowsOnCall(fromObs._iterable.script, 2)
        /\ subs[n].log = <<Sig("N", <<"a">>), Sig("E", ErrVal)>>
        /\ ~subs[n].pending

\* C3: whatever the iterator does and however dispose() is interleaved, a
\* subscriber gets at most one terminal signal and it is the last signal
C3_AtMostOneTerminalAndLast ==
    \A n \in SubIds :
        \A k \in 1..Len(subs[n].log) :
            Terminal(subs[n].log[k]) => k = Len(subs[n].log)

\* an iterator that would go on after it threw: the subscriber saw the error
\* and the queue is empty
C3_Witness ==
    \E n \in SubIds :
        /\ fromObs.made
        /\ fromObs._iterable.script = <<Throw(ErrVal), Value(<<"a">>)>>
        /\ subs[n].log = <<Sig("E", ErrVal)>>
        /\ ~subs[n].pending

\* C4: once dispose() has returned, however it was called (inside onNext or
\* between two steps), the observer receives no further signal
C4_NoSignalAfterDispose ==
    \A n \in SubIds :
        subs[n].disposed => Len(subs[n].log) = subs[n].atDispose

\* disposed inside the first onNext with more elements to come, and the queue
\* has been run
C4_Witness ==
    \E n \in SubIds :
        /\ subs[n].disposed
        /\ subs[n].o.disposeAt = 1
        /\ ~subs[n].pending
        /\ fromObs._iterable.type = "array"
        /\ Len(fromObs._iterable.items) = 2
        /\ subs[n].log = <<Sig("N", fromObs._iterable.items[1])>>

\* C5: from(null) and from(undefined) throw at call time: no Observable is
\* returned and no subscription comes to exist
C5_NullSourceThrowsAtCall ==
    /\ (fromCall.result # "none" /\ fromCall.arg.type \in {"null", "undefined"}) =>
           /\ fromCall.result = "threw"
           /\ ~fromObs.made
           /\ \A n \in SubIds : subs[n] = Idle
    /\ fromObs.made => fromObs._iterable.type \notin {"null", "undefined"}

C5_Witness ==
    /\ fromCall.result = "threw"
    /\ fromCall.arg = Null
    /\ ~fromObs.made

\* the characters s.charAt(0), ..., s.charAt(s.length - 1)
Chars(s) == [k \in 1..Len(s.items) |-> charAt(s, k - 1)]

RECURSIVE Concat(_)
Concat(vs) == IF vs = <<>> THEN <<>> ELSE Head(vs) \o Concat(Tail(vs))

\* the values of a log that ends with onCompleted
Delivered(log) == [k \in 1..(Len(log) - 1) |-> log[k].v]

HasPair(s) == \E k \in 1..(Len(s) - 1) : s[k] = "H" /\ s[k + 1] = "L"

\* C10 as stated: from(s) delivers one onNext per index 0..s.length-1 of the
\* string s, in order, then exactly one onCompleted
C10_OneOnNextPerIndex ==
    \A n \in SubIds :
        (fromObs.made /\ fromObs._iterable.type = "string"
            /\ RanToEnd(subs[n])) =>
            subs[n].log = AllThenCompleted(Chars(fromObs._iterable))

\* C10 amended: from(s) delivers the pieces of s in order (their concatenation
\* is s), then exactly one onCompleted and no onError; each piece is one UTF-16
\* code unit, except that a host with a native string iterator delivers a high
\* surrogate followed by a low surrogate as one piece
C10_StringPiecesThenCompleted ==
    \A n \in SubIds :
        (fromObs.made /\ fromObs._iterable.type = "string"
            /\ subs[n].state # "idle") =>
            /\ subs[n].state = "active"
            /\ \A k \in 1..Len(subs[n].log) :
                   /\ subs[n].log[k].t = "E" => FALSE
                   /\ subs[n].log[k].t = "N" =>
                          \/ Len(subs[n].log[k].v) = 1
                          \/ env.nativeIter /\ subs[n].log[k].v = <<"H", "L">>
            /\ RanToEnd(subs[n]) =>
                   /\ subs[n].log[Len(subs[n].log)] = Sig("C", Undefined)
                   /\ Concat(Delivered(subs[n].log)) = fromObs._iterable.items
                   /\ (~env.nativeIter \/ ~HasPair(fromObs._iterable.items)) =>
                          subs[n].log = AllThenCompleted(Chars(fromObs._iterable))
                   /\ env.nativeIter =>
                          \A k \in 1..(Len(subs[n].log) - 2) :
                              ~(/\ subs[n].log[k].v = <<"H">>
                                /\ subs[n].log[k + 1].v = <<"L">>)

C10_Witness ==
    \E n \in SubIds :
        /\ fromObs.made
        /\ fromObs._iterable = StringSrc(<<"a", "b">>)
        /\ subs[n].log = <<Sig("N", <<"a">>), Sig("N", <<"b">>),
                           Sig("C", Undefined)>>

----------------------------------------------------------------------------
(* Properties of Observable.fromEventPattern *)

Calls(w, f) == {k \in 1..Len(w.calls) : w.calls[k].f = f}

AddCalls(w) == Cardinality(Calls(w, "add"))

DelCalls(w) == Cardinality(Calls(w, "del"))

Registered(w) == IF w.count >= 1 THEN 1 ELSE 0

C6_Registration ==
    /\ ep.count = Cardinality(ep.members)
    /\ ep.obs._del = "removes" => Cardinality(ep.emitter) = Registered(ep)
    /\ isFunction(ep.obs._del) => AddCalls(ep) - DelCalls(ep) = Registered(ep)
    /\ ~isFunction(ep.obs._del) => DelCalls(ep) = 0

C6_CallsFollowCount ==
    /\ AddCalls(ep') =
           AddCalls(ep) + (IF ep.count = 0 /\ ep'.count = 1 THEN 1 ELSE 0)
    /\ DelCalls(ep') =
           DelCalls(ep) + (IF ep.count = 1 /\ ep'.count = 0
                              /\ isFunction(ep.obs._del) THEN 1 ELSE 0)

\* C6: whatever the interleaving of subscribe and unsubscribe by the observers
\* of one fromEventPattern(add, remove) observable (remove returning normally
\* when called), add is called exactly when the subscriber count goes from 0
\* to 1 and remove exactly when it goes from 1 to 0, so the event source holds
\* one registration while an observer is subscribed and none otherwise
C6_OneSharedRegistration ==
    [](ep.obs.shared => C6_Registration) /\ [][C6_CallsFollowCount]_vars

\* two observers were subscribed during one connection and both have left:
\* one add call, then one remove call
C6_Witness ==
    /\ ep.obs.shared
    /\ ep.count = 0
    /\ Len(ep.calls) = 2
    /\ ep.calls[1].f = "add" /\ ep.calls[2].f = "del"
    /\ \A o \in ObsIds : Len(ep.logs[o]) >= 1

\* C7 as stated: whatever removeHandler does, it runs at most once over the
\* lifetime of an event-pattern disposable, however often dispose() is called
C7_RemoveHandlerAtMostOnce ==
    \A c \in ConnIds :
        Cardinality({k \in Calls(ep, "del") : ep.calls[k].fn.id = c}) <= 1

\* the add call that registered the handler of disposable c
AddCallOf(w, c) ==
    w.calls[CHOOSE k \in Calls(w, "add") : w.calls[k].fn.id = c]

C8_FirstDisposeStep(c) ==
    (ep.disps[c].made /\ ~ep.disps[c].called /\ ep'.disps[c].called) =>
        /\ ~ep.disps[c].isDisposed
        /\ ep'.disps[c].isDisposed
        /\ ep'.calls =
               IF isFunction(ep.obs._del)
               THEN Append(ep.calls, [f |-> "del", fn |-> AddCallOf(ep, c).fn,
                                      ret |-> AddCallOf(ep, c).ret])
               ELSE ep.calls

\* C8 as stated: the first dispose() of an event-pattern subscription calls a
\* callable removeHandler with the handler that was passed to addHandler and
\* the value addHandler returned, calls nothing otherwise, and in both cases
\* takes isDisposed from false to true
C8_FirstDispose == [][\A c \in ConnIds : C8_FirstDisposeStep(c)]_vars

\* the handlers registered for observer o
HandlersOf(w, o) == {fn \in w.emitter : fn.o = o}

FirstArgument(args) == IF args = <<>> THEN Undefined ELSE Head(args)

C9_RaiseStep ==
    ep'.raised = ep.raised + 1 =>
        \A o \in ObsIds :
            ep'.logs[o] =
                ep.logs[o] \o
                    [k \in 1..Cardinality(HandlersOf(ep, o)) |->
                        Sig("N", FirstArgument(ep'.lastArgs))]

\* C9: an event-pattern observable delivers nothing but onNext: each event
\* the source raises gives each registered handler's observer one onNext
\* with the event's first argument, and never onError or onCompleted
C9_OnlyForwardsFirstArgument ==
    /\ [](\A o \in ObsIds : \A k \in 1..Len(ep.logs[o]) : ep.logs[o][k].t = "N")
    /\ [][C9_RaiseStep]_vars

C9_Witness ==
    /\ ~ep.obs.shared
    /\ ep.lastArgs = <<Y, X>>
    /\ ep.logs["o1"] = <<Sig("N", Undefined), Sig("N", Y)>>

----------------------------------------------------------------------------
(* Errors *)

\* the source has no iterator, is not a string and has no length
NotIterable(src) ==
    src.type = "object" /\ ~src.hasIter /\ src.length.k = "undef"

\* the last next() call on the caller's iterator threw
LastNextThrew(s) ==
    /\ s.it.kind = "user"
    /\ s.it._i >= 1
    /\ s.it.o.script[s.it._i].t = "throw"

Last(log) == log[Len(log)]

\* C11 as stated: no producer-side error of from, neither an iteration error
\* nor a null or not-iterable source, ever surfaces as a thrown exception
C11_ProducerErrorsNeverThrown ==
    /\ fromCall.result # "threw"
    /\ \A n \in SubIds :
           /\ subs[n].state # "failed"
           /\ subs[n].thrown \notin {ErrVal, TypeErrorNotIterable}

\* C11 amended: an error thrown by the iterator's next() is delivered through
\* onError and never thrown; a source-validation error is thrown and not
\* delivered: from throws for a null or undefined source when it is called,
\* and subscribeCore throws the TypeError for a source that is not iterable
\* before anything is delivered
C11_IterationErrorsToOnErrorValidationThrown ==
    /\ fromCall.result # "none" =>
           (fromCall.result = "threw"
               <=> fromCall.arg.type \in {"null", "undefined"})
    /\ \A n \in SubIds :
           /\ subs[n].thrown # ErrVal
           /\ LastNextThrew(subs[n]) =>
                  /\ subs[n].log # <<>>
                  /\ Last(subs[n].log) = Sig("E", ErrVal)
                  /\ ~subs[n].pending
           /\ subs[n].state = "failed"
                  <=> (subs[n].state # "idle" /\ NotIterable(fromObs._iterable))
           /\ subs[n].state = "failed" =>
                  subs[n].log = <<>> /\ subs[n].thrown = TypeErrorNotIterable

C11_Witness ==
    /\ LastNextThrew(subs["s1"])
    /\ subs["s1"].log = <<Sig("N", <<"a">>), Sig("E", ErrVal)>>
    /\ subs["s1"].thrown = Undefined

\* C12: an error the observer's own onNext or onCompleted throws during the
\* emission loop is not caught by the loop: it is not turned into onError on
\* that observer, it leaves the scheduled step, and nothing more is delivered
C12_ObserverErrorsPropagate ==
    \A n \in SubIds :
        /\ (subs[n].o.throwAt > 0 /\ NextCount(subs[n]) >= subs[n].o.throwAt) =>
               /\ subs[n].thrown = ObserverErr
               /\ NextCount(subs[n]) = subs[n].o.throwAt
               /\ Last(subs[n].log).t = "N"
               /\ ~subs[n].pending
        /\ (/\ subs[n].o.throwsOnCompleted
            /\ \E k \in 1..Len(subs[n].log) : subs[n].log[k].t = "C") =>
               /\ subs[n].thrown = ObserverErr
               /\ Last(subs[n].log).t = "C"
               /\ ~subs[n].pending
        /\ \A k \in 1..Len(subs[n].log) :
               subs[n].log[k] # Sig("E", ObserverErr)

C12_Witness ==
    /\ subs["s1"].thrown = ObserverErr
    /\ subs["s1"].log = <<Sig("N", <<"a">>)>>
    /\ subs["s1"].it._l = Num(2)
    /\ ~subs["s1"].pending

----------------------------------------------------------------------------
(* Scheduling *)

\* C13: with no valid scheduler passed, from uses the current-thread
\* scheduler and the whole sequence, every onNext and the terminal signal, is
\* delivered before subscribe returns: no step is left queued, and a
\* subscription that its observer neither disposed nor left by throwing has
\* its terminal signal
C13_CurrentThreadDeliversWithinSubscribe ==
    (fromCall.result = "returned" /\ ~isScheduler(fromCall.scheduler)) =>
        \A n \in SubIds :
            subs[n].state = "active" =>
                /\ ~subs[n].pending
                /\ \/ Threw(subs[n])
                   \/ subs[n].o.disposeAt > 0 /\ subs[n].disposed
                   \/ subs[n].log # <<>> /\ Terminal(Last(subs[n].log))

C13_Witness ==
    /\ fromCall.result = "returned"
    /\ fromCall.scheduler = "none"
    /\ subs["s1"].log =
           <<Sig("N", <<"a">>), Sig("N", <<"b">>), Sig("C", Undefined)>>
    /\ subs["s2"].state = "idle"

\* C14: constructing an observable does no work: from(source) calls neither
\* the source's iterator factory nor next() and delivers nothing until
\* subscribe; fromEventPattern(add, remove) calls neither add nor remove
\* until the first subscribe
C14_ConstructingDoesNoWork ==
    /\ fromCall.calls = <<>>
    /\ \A n \in SubIds :
           subs[n].state = "idle" => subs[n].log = <<>> /\ subs[n].it = NoIt
    /\ (ep.calls # <<>> \/ ep.emitter # {}) => Made(ep) > 0
    /\ (ep.obs.shared /\ Made(ep) = 0) => ep.count = 0

C14_Witness ==
    /\ ep.obs.made /\ ep.obs.shared
    /\ ep.obs._add = "token" /\ ep.obs._del = "removes"
    /\ ep.calls = <<>>
    /\ ep.count = 0

\* C19: the emission loop goes through the scheduler's trampoline and not
\* through native recursion: however long the sequence, no more than one step
\* invocation is on the call stack at a time
C19_StepDepthBounded ==
    \A n \in SubIds : subs[n].depth = 0 /\ subs[n].maxDepth <= 1

C19_Witness ==
    /\ fromObs._scheduler = "currentThread"
    /\ Len(subs["s1"].log) = MaxLen + 1
    /\ Last(subs["s1"].log) = Sig("C", Undefined)
    /\ subs["s1"].maxDepth = 1

----------------------------------------------------------------------------
(* Lengths, iterators and normalisation *)

\* 0 <= x <= 2^53 - 1 and x is whole
InLengthRange(x) ==
    /\ x.k = "fin" /\ ~x.half
    /\ ~NumLess(x, Num(0))
    /\ ~NumLess(maxSafeInteger, x)

\* C15 as stated: the length toLength gives an array-like source always lies
\* in 0..2^53 - 1: 0 for NaN, 0 for a negative or zero length, the length
\* truncated toward zero for a fractional one, 2^53 - 1 for every length above
\* 2^53 - 1, an infinite one included
C15_LengthClampedToSafeRange ==
    itr.it.kind = "ArrayIterator" =>
        LET len == itr.it.o.length
            l == itr.it._l
        IN  /\ InLengthRange(l)
            /\ len.k = "nan" => IsZero(l)
            /\ (len.k # "nan" /\ ~NumLess(Num(0), len)) => IsZero(l)
            /\ NumLess(maxSafeInteger, len) => l = maxSafeInteger
            /\ (/\ len.k = "fin"
                /\ NumLess(Num(0), len)
                /\ ~NumLess(maxSafeInteger, len)) => l = FloorAbs(len)

\* C16 as stated: a source with an iterator is iterated through that
\* iterator; otherwise a string is iterated by the StringIterator; otherwise a
\* source with a defined length by the ArrayIterator; otherwise the TypeError
\* is raised
C16_BranchByKindOfSource ==
    \A n \in SubIds :
        subs[n].state # "idle" =>
            LET src == fromObs._iterable
            IN  IF src.hasIter \/ (src.type \in {"string", "array"} /\ env.nativeIter)
                THEN subs[n].it.kind \in {"user", "hostString", "hostArray"}
                ELSE IF src.type = "string"
                THEN subs[n].it.kind = "StringIterator"
                ELSE IF src.length.k # "undef"
                THEN subs[n].it.kind = "ArrayIterator"
                ELSE subs[n].state = "failed"

\* C20 as stated: the cursor of a StringIterator or ArrayIterator satisfies
\* 0 <= _i <= _l; each next() either increases _i by exactly 1 and gives a
\* value, or leaves _i as it is and answers done; once next() has answered
\* done it answers done ever after
C20_CursorWithinLength ==
    itr.it.kind \in {"StringIterator", "ArrayIterator"} =>
        /\ itr.it._i >= 0
        /\ ~NumLess(itr.it._l, Num(itr.it._i))
        /\ itr.last = "value" => itr.it._i = itr.prev + 1
        /\ itr.last = "done" => itr.it._i = itr.prev
        /\ itr.wasDone => itr.last = "done"

----------------------------------------------------------------------------
(* Disposal that fails, and subscriptions side by side *)

\* a step that calls neither addHandler nor removeHandler leaves every
\* disposable and the thrown flag as they were: a dispose() of a disposable
\* whose removeHandler throws is never a silent one
C17_DisposeStep ==
    (ep.obs._del = "throws" /\ ep'.calls = ep.calls) =>
        ep'.disps = ep.disps /\ ep'.threw = ep.threw

\* C17: when removeHandler throws during dispose(), the error reaches the
\* caller of dispose() and isDisposed stays false, so that a later dispose()
\* calls removeHandler again
C17_ThrowingRemoveHandlerLeavesUndisposed ==
    /\ [](ep.obs._del = "throws" =>
              \A c \in ConnIds :
                  /\ ~ep.disps[c].isDisposed
                  /\ ep.disps[c].called =>
                         /\ ep.threw
                         /\ \E k \in Calls(ep, "del") :
                                ep.calls[k].fn = ep.disps[c]._fn)
    /\ [][C17_DisposeStep]_vars

C17_Witness ==
    /\ ep.obs._del = "throws"
    /\ ep.threw
    /\ ~ep.disps[1].isDisposed
    /\ Cardinality({k \in Calls(ep, "del") : ep.calls[k].fn = ep.disps[1]._fn}) = 2

\* the number of code units or elements a log's onNext values stand for
Consumed(log) ==
    Len(Concat([k \in 1..Len(SelectSeq(log, LAMBDA g : g.t = "N")) |->
                   SelectSeq(log, LAMBDA g : g.t = "N")[k].v]))

\* C18: two subscriptions to the same from(A), A an array-like or a string,
\* are independent: each has its own iterator, which starts at index 0 and
\* stands where that subscription's own onNext calls have taken it, and each
\* receives the full sequence whatever the other has received or disposed
C18_SubscriptionsIndependent ==
    (fromObs.made
        /\ (IsArrayLike(fromObs._iterable) \/ fromObs._iterable.type = "string")) =>
        \A n \in SubIds :
            subs[n].state = "active" =>
                /\ subs[n].it._i = Consumed(subs[n].log)
                /\ RanToEnd(subs[n]) =>
                       /\ Last(subs[n].log) = Sig("C", Undefined)
                       /\ Consumed(subs[n].log) =
                              IF fromObs._iterable.type = "string"
                              THEN Len(fromObs._iterable.items)
                              ELSE fromObs._iterable.length.lo

C18_Witness ==
    /\ fromObs._iterable = ArraySrc(<<<<"a">>, <<"b">>>>)
    /\ subs["s1"].disposed
    /\ subs["s1"].log = <<Sig("N", <<"a">>)>>
    /\ subs["s2"].log =
           <<Sig("N", <<"a">>), Sig("N", <<"b">>), Sig("C", Undefined)>>

====
